---------------------------- MODULE Spec2Model ----------------------------
(***************************************************************************)
(* A model of the ClickHouse client facade (src/src/index.ts): the         *)
(* statement formatter (formatQuery, removeTrailingSemi, getInsertQuery),  *)
(* the settings merger (withClientQueryParams) and the operations query,   *)
(* command, exec, insert, ping and close of ClickHouseClient.              *)
(*                                                                         *)
(* A text is a sequence of lexemes.  A lexeme is one whitespace            *)
(* character, one ';' character, one punctuation character, or a word (a   *)
(* maximal run of other characters).  trim() and removeTrailingSemi only   *)
(* look at whitespace and ';' characters, so they act on a sequence of     *)
(* lexemes exactly as they act on the characters.                          *)
(***************************************************************************)
EXTENDS Integers, Sequences, FiniteSets, TLC

VARIABLES
    config,   \* the argument of the constructor
    client,   \* the private readonly fields of the ClickHouseClient
    calls,    \* one record per call of an operation: position, locals, log
    input,    \* the text handed to removeTrailingSemi (text specification)
    output,   \* what removeTrailingSemi returned
    applied   \* whether removeTrailingSemi has returned

vars == <<config, client, calls, input, output, applied>>

-----------------------------------------------------------------------------
(* Bounds *)

MaxLen == 3       \* lexemes in a caller's statement text
MaxTable == 3     \* lexemes in a caller's table name
MaxCols == 2      \* column names in an insert column selector
MaxCalls == 2     \* calls in flight on one client

-----------------------------------------------------------------------------
(* Lexemes and texts *)

UNDEF == "undefined"

WhiteSpace == {" ", "\n"}

Semi == ";"

Lexemes == {" ", ";", "x", "FORMAT", "CSV"}

DataFormat == {"JSON", "JSONEachRow", "JSONCompactEachRow", "CSV"}

SeqsUpTo(S, n) == UNION {[1..k -> S] : k \in 0..n}

Texts == SeqsUpTo(Lexemes, MaxLen)

\* String.prototype.trim(): drops the leading and the trailing whitespace.
RECURSIVE TrimStart(_)
TrimStart(s) ==
    IF s # <<>> /\ Head(s) \in WhiteSpace THEN TrimStart(Tail(s)) ELSE s

RECURSIVE TrimEnd(_)
TrimEnd(s) ==
    IF s # <<>> /\ s[Len(s)] \in WhiteSpace
    THEN TrimEnd(SubSeq(s, 1, Len(s) - 1))
    ELSE s

trim(s) == TrimEnd(TrimStart(s))

\* The loop of removeTrailingSemi: i runs from query.length down to 1 and
\* stops at the first i with query[i - 1] !== ';' (TLA+ index i); when the
\* loop ends without a break lastNonSemiIdx keeps its initial value.
RECURSIVE LastNonSemiIdx(_, _)
LastNonSemiIdx(query, i) ==
    IF i > 0
    THEN IF query[i] # Semi THEN i ELSE LastNonSemiIdx(query, i - 1)
    ELSE Len(query)

removeTrailingSemi(query) ==
    LET lastNonSemiIdx == LastNonSemiIdx(query, Len(query))
    IN  IF lastNonSemiIdx # Len(query)
        THEN SubSeq(query, 1, lastNonSemiIdx)
        ELSE query

\* ' \nFORMAT '
FormatClauseMarker == <<" ", "\n", "FORMAT", " ">>

\* Mutant: the clause is left out when the text already names the format.
formatQueryOnce(query, format) ==
    LET text == removeTrailingSemi(trim(query))
    IN  IF \E i \in 1..Len(text) : text[i] = "FORMAT"
        THEN text
        ELSE text \o FormatClauseMarker \o <<format>>

formatQuery(query, format) ==
    removeTrailingSemi(trim(query)) \o FormatClauseMarker \o <<format>>


-----------------------------------------------------------------------------
(* Values of the caller's parameters *)

\* A settings object: a map from setting names to values.
SettingKeys == {"max_threads", "readonly"}

EmptyMap == [k \in {} |-> 0]

\* params.clickhouse_settings is optional: undefined, or a settings object.
UndefinedSettings == [defined |-> FALSE, map |-> EmptyMap]

DefinedSettings(m) == [defined |-> TRUE, map |-> m]

\* Every field of BaseQueryParams left undefined.
NoBase ==
    [clickhouse_settings |-> UndefinedSettings,
     query_params |-> UNDEF,
     abort_signal |-> UNDEF,
     query_id |-> UNDEF,
     session_id |-> UNDEF,
     role |-> UNDEF,
     auth |-> UNDEF,
     opentelemetry_headers |-> UNDEF]

\* InsertParams.values: an array of rows, a stream, or another object.
ArrayValues(rows) == [kind |-> "array", rows |-> rows]

StreamValues == [kind |-> "stream", rows |-> <<>>]

IsArray(v) == v.kind = "array"

\* InsertParams.columns: undefined, an array of names, an object with an
\* 'except' list, or another value (null, an object without 'except').
NoColumns == [kind |-> "undefined", names |-> <<>>]

ColumnList(names) == [kind |-> "array", names |-> names]

ColumnsExcept(names) == [kind |-> "except", names |-> names]

OtherColumns == [kind |-> "other", names |-> <<>>]

ColumnNames == {"a", "b"}

-----------------------------------------------------------------------------
(* Settings merger *)

\* { ...a, ...b }: the keys of both, b's value where b has the key.
Spread(a, b) ==
    [k \in (DOMAIN a) \cup (DOMAIN b) |-> IF k \in DOMAIN b THEN b[k] ELSE a[k]]

\* ...params.clickhouse_settings: spreading undefined copies no key.
SpreadOptional(s) == IF s.defined THEN s.map ELSE EmptyMap

\* a ?? b
NullishCoalesce(a, b) == IF a = UNDEF THEN b ELSE a

\* Mutant: the spread is in the other order, the client's value wins.
withClientQueryParamsClientWins(this, params) ==
    [clickhouse_settings |->
        Spread(SpreadOptional(params.clickhouse_settings),
               this.clientClickHouseSettings),
     query_params |-> params.query_params,
     abort_signal |-> params.abort_signal,
     query_id |-> params.query_id,
     session_id |-> NullishCoalesce(params.session_id, this.sessionId),
     role |-> NullishCoalesce(params.role, this.role),
     auth |-> params.auth,
     opentelemetry_headers |-> params.opentelemetry_headers]

withClientQueryParams(this, params) ==
    [clickhouse_settings |->
        Spread(this.clientClickHouseSettings,
               SpreadOptional(params.clickhouse_settings)),
     query_params |-> params.query_params,
     abort_signal |-> params.abort_signal,
     query_id |-> params.query_id,
     session_id |-> NullishCoalesce(params.session_id, this.sessionId),
     role |-> NullishCoalesce(params.role, this.role),
     auth |-> params.auth,
     opentelemetry_headers |-> params.opentelemetry_headers]

-----------------------------------------------------------------------------
(* Insert statement *)

\* Array.prototype.join(', ')
RECURSIVE Join(_)
Join(names) ==
    IF names = <<>> THEN <<>>
    ELSE IF Len(names) = 1 THEN <<names[1]>>
    ELSE <<names[1], ",", " ">> \o Join(Tail(names))

isInsertColumnsExcept(obj) == obj.kind = "except"

\* Mutant: the length of the list is not looked at.
columnsPartOfAnyList(columns) ==
    IF columns.kind = "array"
    THEN <<" ", "(">> \o Join(columns.names) \o <<")">>
    ELSE IF isInsertColumnsExcept(columns)
    THEN <<" ", "(", "*", " ", "EXCEPT", " ", "(">>
             \o Join(columns.names) \o <<")", ")">>
    ELSE <<>>

columnsPart(columns) ==
    IF columns.kind # "undefined"
    THEN IF columns.kind = "array" /\ Len(columns.names) > 0
         THEN <<" ", "(">> \o Join(columns.names) \o <<")">>
         ELSE IF isInsertColumnsExcept(columns) /\ Len(columns.names) > 0
         THEN <<" ", "(", "*", " ", "EXCEPT", " ", "(">>
                  \o Join(columns.names) \o <<")", ")">>
         ELSE <<>>
    ELSE <<>>

getInsertQuery(params, format) ==
    <<"INSERT", " ", "INTO", " ">> \o trim(params.table)
        \o columnsPart(params.columns) \o <<" ", "FORMAT", " ", format>>

-----------------------------------------------------------------------------
(* The client and its collaborators *)

\* new ClickHouseClient(config): the fields set by the constructor.
Construct(cfg) ==
    [clientClickHouseSettings |-> cfg.clickhouse_settings,
     sessionId |-> cfg.session_id,
     role |-> cfg.role,
     connection |-> "connection",
     makeResultSet |-> "make_result_set",
     valuesEncoder |-> "values_encoder",
     logWriter |-> "log_writer"]

\* The fields after a call has built its effective parameters: every field
\* is readonly and withClientQueryParams allocates a fresh object.
FieldsAfterMergeInPlace(this, params) ==
    [this EXCEPT !.clientClickHouseSettings =
        Spread(@, SpreadOptional(params.clickhouse_settings))]

FieldsAfter(this, params) == this

\* What a call logs: the calls it makes on the encoder, the connection and
\* the result set factory, in order.
\* ok: whether the encoder returned (FALSE: it threw).
EncoderCall(fn, values, format, ok) ==
    [t |-> "encoder", fn |-> fn, values |-> values, format |-> format,
     ok |-> ok]

ConnectionCall(op, req) == [t |-> "connection", op |-> op, req |-> req]

FactoryCall(stream, format, query_id, response_headers) ==
    [t |-> "makeResultSet", stream |-> stream, format |-> format,
     query_id |-> query_id, response_headers |-> response_headers]

\* How a call or an awaited promise ends.
Pending == [kind |-> "pending"]

Returned(v) == [kind |-> "returned", value |-> v]

Threw(e) == [kind |-> "threw", error |-> e]

\* The query id a connection reports: the caller's, or a generated one.
QueryIdOf(req) == IF req.query_id = UNDEF THEN "generated" ELSE req.query_id

\* Connection.query / command / exec / insert: settle with a result or an error.
ConnectionSettles(op, req, ok) ==
    IF ~ok THEN Threw("connection error")
    ELSE IF op \in {"query", "exec"}
    THEN Returned([stream |-> "stream", query_id |-> QueryIdOf(req),
                   response_headers |-> "headers"])
    ELSE Returned([query_id |-> QueryIdOf(req), summary |-> "summary",
                   response_headers |-> "headers"])

\* Connection.ping: never raises; a failed probe is reported in the result.
ConnectionPing(probeOk) ==
    IF probeOk THEN Returned([success |-> TRUE, error |-> UNDEF])
    ELSE Returned([success |-> FALSE, error |-> "cause"])

\* ValuesEncoder.encodeValues: the payload, a function of its arguments.
encodeValues(values, format) == [encoded |-> values, as |-> format]

\* MakeResultSet: the result set over the stream, decoding it as format.
makeResultSet(stream, format, query_id, response_headers) ==
    [stream |-> stream, format |-> format, query_id |-> query_id,
     response_headers |-> response_headers]

Calls == 1..MaxCalls

\* A call: its position, its parameters, the format it chose, the calls it
\* made on its collaborators, how the connection settled, how it ended.
Idle ==
    [pc |-> "idle", op |-> "none", params |-> NoBase, format |-> UNDEF,
     log |-> <<>>, settled |-> Pending, outcome |-> Pending]

Awaiting(op, params, format, log) ==
    [pc |-> "awaiting", op |-> op, params |-> params, format |-> format,
     log |-> log, settled |-> Pending, outcome |-> Pending]

Finished(op, params, format, log, outcome) ==
    [pc |-> "done", op |-> op, params |-> params, format |-> format,
     log |-> log, settled |-> Pending, outcome |-> outcome]

Resumed(call, log, settled, outcome) ==
    [call EXCEPT !.pc = "done", !.log = log, !.settled = settled,
                 !.outcome = outcome]

\* The request the call handed to the connection.
RequestOf(call) == call.log[Len(call.log)].req

\* a || b on optional strings: undefined and '' are falsy.
LogicalOr(a, b) == IF a \in {UNDEF, ""} THEN b ELSE a

\* return await promise: the call ends as the awaited promise settled.
ReturnAwait(settled) == settled

-----------------------------------------------------------------------------
(* Operations of ClickHouseClient.  Each runs without interruption up to  *)
(* its await of the connection and resumes when the connection settles.   *)

queryFormat(params) == NullishCoalesce(params.format, "JSON")

\* { query, ...queryParams }
queryRequest(this, params) ==
    Spread([query |-> formatQuery(params.query, queryFormat(params))],
           withClientQueryParams(this, params))

Query(c, inputs) ==
    /\ calls[c].pc = "idle"
    /\ \E params \in inputs :
        /\ calls' = [calls EXCEPT ![c] =
               Awaiting("query", params, queryFormat(params),
                   <<ConnectionCall("query", queryRequest(client, params))>>)]
        /\ client' = FieldsAfter(client, params)
    /\ UNCHANGED <<config, input, output, applied>>

QueryResume(c) ==
    /\ calls[c].pc = "awaiting"
    /\ calls[c].op = "query"
    /\ \E ok \in BOOLEAN :
       LET call == calls[c]
           settled == ConnectionSettles("query", RequestOf(call), ok)
       IN  calls' = [calls EXCEPT ![c] =
               IF settled.kind = "threw"
               THEN Resumed(call, call.log, settled, settled)
               ELSE LET r == settled.value
                    IN  Resumed(call,
                            Append(call.log,
                                FactoryCall(r.stream, call.format, r.query_id,
                                            r.response_headers)),
                            settled,
                            Returned(makeResultSet(r.stream, call.format,
                                         r.query_id, r.response_headers)))]
    /\ UNCHANGED <<config, client, input, output, applied>>

commandRequest(this, params) ==
    Spread([query |-> removeTrailingSemi(trim(params.query))],
           withClientQueryParams(this, params))

Command(c, inputs) ==
    /\ calls[c].pc = "idle"
    /\ \E params \in inputs :
        /\ calls' = [calls EXCEPT ![c] =
               Awaiting("command", params, UNDEF,
                   <<ConnectionCall("command", commandRequest(client, params))>>)]
        /\ client' = FieldsAfter(client, params)
    /\ UNCHANGED <<config, input, output, applied>>

CommandResume(c) ==
    /\ calls[c].pc = "awaiting"
    /\ calls[c].op = "command"
    /\ \E ok \in BOOLEAN :
       LET call == calls[c]
           settled == ConnectionSettles("command", RequestOf(call), ok)
       IN  calls' = [calls EXCEPT ![c] =
               Resumed(call, call.log, settled, ReturnAwait(settled))]
    /\ UNCHANGED <<config, client, input, output, applied>>

execRequest(this, params) ==
    Spread([query |-> removeTrailingSemi(trim(params.query)),
            values |-> IF "values" \in DOMAIN params THEN params.values ELSE UNDEF,
            decompress_response_stream |->
                NullishCoalesce(params.decompress_response_stream, "true")],
           withClientQueryParams(this, params))

Exec(c, inputs) ==
    /\ calls[c].pc = "idle"
    /\ \E params \in inputs :
        /\ calls' = [calls EXCEPT ![c] =
               Awaiting("exec", params, UNDEF,
                   <<ConnectionCall("exec", execRequest(client, params))>>)]
        /\ client' = FieldsAfter(client, params)
    /\ UNCHANGED <<config, input, output, applied>>

ExecResume(c) ==
    /\ calls[c].pc = "awaiting"
    /\ calls[c].op = "exec"
    /\ \E ok \in BOOLEAN :
       LET call == calls[c]
           settled == ConnectionSettles("exec", RequestOf(call), ok)
       IN  calls' = [calls EXCEPT ![c] =
               Resumed(call, call.log, settled, ReturnAwait(settled))]
    /\ UNCHANGED <<config, client, input, output, applied>>

\* Mutant: the length of the array is not looked at.
IsAnyArray(values) == IsArray(values)

\* Array.isArray(params.values) && params.values.length === 0
IsEmptyArray(values) == IsArray(values) /\ Len(values.rows) = 0

\* Mutant: the default format is not applied.
insertFormatNoDefault(params) == params.format

insertFormat(params) == LogicalOr(params.format, "JSONCompactEachRow")

\* { query, values: encodeValues(...), ...withClientQueryParams(params) }
insertRequest(this, params) ==
    Spread([query |-> getInsertQuery(params, insertFormat(params)),
            values |-> encodeValues(params.values, insertFormat(params))],
           withClientQueryParams(this, params))

\* Mutant: a failed validation does not end the call.
insertIgnoringValidation(this, params, valid) ==
    IF IsEmptyArray(params.values)
    THEN Finished("insert", params, UNDEF, <<>>,
             Returned([executed |-> FALSE, query_id |-> "",
                       response_headers |-> EmptyMap]))
    ELSE Awaiting("insert", params, insertFormat(params),
             <<EncoderCall("validateInsertValues", params.values,
                           insertFormat(params), valid),
               EncoderCall("encodeValues", params.values,
                           insertFormat(params), TRUE),
               ConnectionCall("insert", insertRequest(this, params))>>)

\* insert up to its await.  valid: whether validateInsertValues accepts
\* the dataset (it throws when it does not).
insert(this, params, valid) ==
    IF IsEmptyArray(params.values)
    THEN Finished("insert", params, UNDEF, <<>>,
             Returned([executed |-> FALSE, query_id |-> "",
                       response_headers |-> EmptyMap]))
    ELSE LET format == insertFormat(params)
             validated ==
                 <<EncoderCall("validateInsertValues", params.values, format, valid)>>
         IN  IF ~valid
             THEN Finished("insert", params, format, validated,
                           Threw("validation error"))
             ELSE Awaiting("insert", params, format,
                      validated \o
                      <<EncoderCall("encodeValues", params.values, format, TRUE),
                        ConnectionCall("insert", insertRequest(this, params))>>)

Insert(c, inputs) ==
    /\ calls[c].pc = "idle"
    /\ \E params \in inputs, valid \in BOOLEAN :
        /\ calls' = [calls EXCEPT ![c] = insert(client, params, valid)]
        /\ client' = IF calls'[c].pc = "awaiting"
                     THEN FieldsAfter(client, params)
                     ELSE client
    /\ UNCHANGED <<config, input, output, applied>>

InsertResume(c) ==
    /\ calls[c].pc = "awaiting"
    /\ calls[c].op = "insert"
    /\ \E ok \in BOOLEAN :
       LET call == calls[c]
           settled == ConnectionSettles("insert", RequestOf(call), ok)
       IN  calls' = [calls EXCEPT ![c] =
               Resumed(call, call.log, settled,
                    IF settled.kind = "threw" THEN settled
                    ELSE Returned(Spread(settled.value, [executed |-> TRUE])))]
    /\ UNCHANGED <<config, client, input, output, applied>>

\* Mutant: a failed probe is thrown to the caller.
pingThrowingOnFailure(settled) ==
    IF settled.kind = "returned" /\ ~settled.value.success
    THEN Threw(settled.value.error)
    ELSE settled

\* return await this.connection.ping()
ping(settled) == ReturnAwait(settled)

Ping(c) ==
    /\ calls[c].pc = "idle"
    /\ calls' = [calls EXCEPT ![c] =
           Awaiting("ping", NoBase, UNDEF, <<ConnectionCall("ping", UNDEF)>>)]
    /\ UNCHANGED <<config, client, input, output, applied>>

PingResume(c) ==
    /\ calls[c].pc = "awaiting"
    /\ calls[c].op = "ping"
    /\ \E probeOk \in BOOLEAN :
       LET settled == ConnectionPing(probeOk)
       IN  calls' = [calls EXCEPT ![c] =
               Resumed(calls[c], calls[c].log, settled, ping(settled))]
    /\ UNCHANGED <<config, client, input, output, applied>>

Close(c) ==
    /\ calls[c].pc = "idle"
    /\ calls' = [calls EXCEPT ![c] =
           Awaiting("close", NoBase, UNDEF, <<ConnectionCall("close", UNDEF)>>)]
    /\ UNCHANGED <<config, client, input, output, applied>>

CloseResume(c) ==
    /\ calls[c].pc = "awaiting"
    /\ calls[c].op = "close"
    /\ calls' = [calls EXCEPT ![c] =
           Resumed(calls[c], calls[c].log, Returned(UNDEF),
                   ReturnAwait(Returned(UNDEF)))]
    /\ UNCHANGED <<config, client, input, output, applied>>

\* removeTrailingSemi applied to a text on its own.
ApplyRemoveTrailingSemi ==
    /\ ~applied
    /\ output' = removeTrailingSemi(input)
    /\ applied' = TRUE
    /\ UNCHANGED <<config, client, calls, input>>

-----------------------------------------------------------------------------
(* Inputs *)

DefaultConfig ==
    [clickhouse_settings |-> EmptyMap, session_id |-> UNDEF, role |-> UNDEF]

CallFormats == {UNDEF, "JSONEachRow", "CSV"}

TableTexts == SeqsUpTo({" ", "t", "FORMAT", "CSV"}, MaxTable)

ColumnSelectors ==
    {NoColumns, OtherColumns}
        \cup {ColumnList(n) : n \in SeqsUpTo(ColumnNames, MaxCols)}
        \cup {ColumnsExcept(n) : n \in SeqsUpTo(ColumnNames, MaxCols)}

InsertValues ==
    {ArrayValues(<<>>), ArrayValues(<<"row">>), StreamValues}

StmtQueryParams ==
    {Spread([query |-> q, format |-> f], NoBase) :
        q \in Texts, f \in CallFormats}

StmtCommandParams ==
    {Spread([query |-> q, decompress_response_stream |-> UNDEF], NoBase) :
        q \in Texts}

StmtExecParams ==
    {Spread([query |-> q, decompress_response_stream |-> d], NoBase) :
        q \in Texts, d \in {UNDEF, "false"}}
    \cup {Spread([query |-> q, decompress_response_stream |-> UNDEF,
                   values |-> "stream"], NoBase) : q \in Texts}

StmtInsertParams ==
    {Spread([table |-> t, values |-> v, format |-> f, columns |-> cols], NoBase) :
        t \in TableTexts, v \in InsertValues, f \in {UNDEF, "CSV"},
        cols \in ColumnSelectors}

\* Client-level and per-call values of the settings, session id and role.
ClientSettings ==
    {EmptyMap,
     [k \in {"max_threads"} |-> 4],
     [k \in SettingKeys |-> IF k = "max_threads" THEN 4 ELSE 0]}

ParamConfigs ==
    [clickhouse_settings : ClientSettings,
     session_id : {UNDEF, "s0"},
     role : {UNDEF, "r0"}]

CallSettings ==
    {UndefinedSettings}
        \cup {DefinedSettings([k \in K |-> IF k = "max_threads" THEN 8 ELSE 1]) :
                 K \in SUBSET SettingKeys}

ParamBases ==
    [clickhouse_settings : CallSettings,
     query_params : {UNDEF, "query params"},
     abort_signal : {UNDEF, "abort signal"},
     query_id : {UNDEF, "q1"},
     session_id : {UNDEF, "", "s1"},
     role : {UNDEF, "r1"},
     auth : {UNDEF, "auth"},
     opentelemetry_headers : {UNDEF, "trace headers"}]

QueryParamsOver(bases) ==
    {Spread([query |-> <<"x", ";">>, format |-> UNDEF], b) : b \in bases}

CommandParamsOver(bases) ==
    {Spread([query |-> <<"x", ";">>, decompress_response_stream |-> UNDEF], b) :
        b \in bases}

ExecParamsOver(bases) ==
    {Spread([query |-> <<"x", ";">>, decompress_response_stream |-> UNDEF,
             values |-> "stream"], b) : b \in bases}

InsertParamsOver(bases, values) ==
    {Spread([table |-> <<"t">>, values |-> v, format |-> UNDEF,
             columns |-> NoColumns], b) : b \in bases, v \in values}

\* Concurrent calls: a call that overrides nothing and one that overrides
\* every field.
Override ==
    [clickhouse_settings |->
        DefinedSettings([k \in SettingKeys |-> IF k = "max_threads" THEN 8 ELSE 1]),
     query_params |-> "query params",
     abort_signal |-> "abort signal",
     query_id |-> "q1",
     session_id |-> "s1",
     role |-> "r1",
     auth |-> "auth",
     opentelemetry_headers |-> "trace headers"]

ConcBases == {NoBase, Override}

ConcConfigs ==
    {DefaultConfig,
     [clickhouse_settings |-> [k \in {"max_threads"} |-> 4],
      session_id |-> "s0", role |-> "r0"]}

-----------------------------------------------------------------------------
(* Specifications *)

InitClient(cfg) ==
    /\ config = cfg
    /\ client = Construct(cfg)
    /\ calls = [c \in Calls |-> Idle]

\* removeTrailingSemi on every text.
InitText ==
    /\ InitClient(DefaultConfig)
    /\ input \in Texts
    /\ output = <<>>
    /\ applied = FALSE

NextText == ApplyRemoveTrailingSemi

SpecText == InitText /\ [][NextText]_vars

\* One call at a time, over every statement text, table and column selector.
InitStmt ==
    /\ InitClient(DefaultConfig)
    /\ input = <<>>
    /\ output = <<>>
    /\ applied = FALSE

NextStmt ==
    \/ Query(1, StmtQueryParams)
    \/ QueryResume(1)
    \/ Command(1, StmtCommandParams)
    \/ CommandResume(1)
    \/ Exec(1, StmtExecParams)
    \/ ExecResume(1)
    \/ Insert(1, StmtInsertParams)
    \/ InsertResume(1)

SpecStmt == InitStmt /\ [][NextStmt]_vars

\* One call at a time, over the client-level and per-call parameters.
InitParams ==
    /\ \E cfg \in ParamConfigs : InitClient(cfg)
    /\ input = <<>>
    /\ output = <<>>
    /\ applied = FALSE

NextParams ==
    \/ Query(1, QueryParamsOver(ParamBases))
    \/ QueryResume(1)
    \/ Command(1, CommandParamsOver(ParamBases))
    \/ CommandResume(1)
    \/ Exec(1, ExecParamsOver(ParamBases))
    \/ ExecResume(1)
    \/ Insert(1, InsertParamsOver(ParamBases, {StreamValues}))
    \/ InsertResume(1)

SpecParams == InitParams /\ [][NextParams]_vars

\* Concurrent calls on one client, interleaved at their awaits.
Init ==
    /\ \E cfg \in ConcConfigs : InitClient(cfg)
    /\ input = <<>>
    /\ output = <<>>
    /\ applied = FALSE

Next ==
    \E c \in Calls :
        \/ Query(c, QueryParamsOver(ConcBases))
        \/ QueryResume(c)
        \/ Command(c, CommandParamsOver(ConcBases))
        \/ CommandResume(c)
        \/ Exec(c, ExecParamsOver(ConcBases))
        \/ ExecResume(c)
        \/ Insert(c, InsertParamsOver(ConcBases,
                         {ArrayValues(<<>>), ArrayValues(<<"row">>)}))
        \/ InsertResume(c)
        \/ Ping(c)
        \/ PingResume(c)
        \/ Close(c)
        \/ CloseResume(c)

Spec == Init /\ [][Next]_vars

-----------------------------------------------------------------------------
(* What the claims speak of *)

\* s without its maximal trailing run of ';'.
RECURSIVE WithoutTrailingSemis(_)
WithoutTrailingSemis(s) ==
    IF s # <<>> /\ s[Len(s)] = ";"
    THEN WithoutTrailingSemis(SubSeq(s, 1, Len(s) - 1))
    ELSE s

IsPrefix(s, t) == Len(s) <= Len(t) /\ s = SubSeq(t, 1, Len(s))

\* Position i of s is outside s or holds no word.
Boundary(s, i) ==
    i < 1 \/ i > Len(s) \/ s[i] \in WhiteSpace \cup {";", ",", "(", ")"}

\* A FORMAT <fmt> clause starts at i: the keyword, whitespace, a format name.
FormatClauseAt(s, i) ==
    /\ s[i] = "FORMAT"
    /\ Boundary(s, i - 1)
    /\ \E j \in (i + 2)..Len(s) :
        /\ s[j] \in DataFormat
        /\ \A k \in (i + 1)..(j - 1) : s[k] \in WhiteSpace
        /\ Boundary(s, j + 1)

CountFormatClauses(s) == Cardinality({i \in 1..Len(s) : FormatClauseAt(s, i)})

\* The positions of a call's log holding calls of one kind.
ConnectionCalls(call) ==
    {i \in DOMAIN call.log : call.log[i].t = "connection"}

EncoderCalls(call, fn) ==
    {i \in DOMAIN call.log : call.log[i].t = "encoder" /\ call.log[i].fn = fn}

FactoryCalls(call) ==
    {i \in DOMAIN call.log : call.log[i].t = "makeResultSet"}

CallsOf(ops) == {c \in Calls : calls[c].op \in ops}

\* c1, c2, ... as ', '-separated lexemes.
CommaList(names) ==
    [i \in 1..(3 * Len(names) - 2) |->
        IF i % 3 = 1 THEN names[(i + 2) \div 3]
        ELSE IF i % 3 = 2 THEN "," ELSE " "]

ShortCircuitResult ==
    Returned([executed |-> FALSE, query_id |-> "", response_headers |-> EmptyMap])

-----------------------------------------------------------------------------
(* Claims *)

\* C1: removeTrailingSemi returns the text without its maximal trailing run
\* of ';' (the empty text for a text made only of ';'), every other
\* character unchanged; a text not ending in ';' is returned unchanged.
C1_RemovesMaximalTrailingRun ==
    applied => output = WithoutTrailingSemis(input)

\* C2: the statement query hands to the connection is the trimmed,
\* trailing-';'-stripped params.query followed by ' \nFORMAT ' and the
\* format (params.format, or JSON when omitted), and the result set factory
\* gets that same format.
C2_QueryStatementAndFormat ==
    \A c \in CallsOf({"query"}) :
        LET call == calls[c]
            fmt == IF call.params.format = UNDEF THEN "JSON"
                   ELSE call.params.format
        IN  /\ \A i \in ConnectionCalls(call) :
                call.log[i].req.query =
                    WithoutTrailingSemis(trim(call.params.query))
                        \o <<" ", "\n", "FORMAT", " ", fmt>>
            /\ \A i \in FactoryCalls(call) : call.log[i].format = fmt

\* C3 as stated: every statement sent by query or insert holds exactly one
\* FORMAT <fmt> clause whatever the caller's text is, and every statement
\* sent by command or exec is the caller's trimmed text, nothing appended.
C3_ExactlyOneFormatClause ==
    /\ \A c \in CallsOf({"query", "insert"}) :
        \A i \in ConnectionCalls(calls[c]) :
            CountFormatClauses(calls[c].log[i].req.query) = 1
    /\ \A c \in CallsOf({"command", "exec"}) :
        \A i \in ConnectionCalls(calls[c]) :
            IsPrefix(calls[c].log[i].req.query, trim(calls[c].params.query))

\* C3 as amended: query and insert append one FORMAT <fmt> clause to the
\* caller's text without looking at it, so the statement ends in that
\* clause and holds one clause more than the caller's text (one when the
\* text holds none); command and exec send a prefix of the caller's trimmed
\* text, with no clause that the caller's text does not hold.
C3_OneFormatClauseAppended ==
    /\ \A c \in CallsOf({"query", "insert"}) :
        \A i \in ConnectionCalls(calls[c]) :
            LET stmt == calls[c].log[i].req.query
                text == IF calls[c].op = "query" THEN calls[c].params.query
                        ELSE calls[c].params.table
            IN  /\ CountFormatClauses(stmt) = CountFormatClauses(text) + 1
                /\ FormatClauseAt(stmt, Len(stmt) - 2)
                /\ stmt[Len(stmt)] =
                       IF calls[c].params.format # UNDEF
                       THEN calls[c].params.format
                       ELSE IF calls[c].op = "query" THEN "JSON"
                       ELSE "JSONCompactEachRow"
    /\ \A c \in CallsOf({"command", "exec"}) :
        \A i \in ConnectionCalls(calls[c]) :
            LET stmt == calls[c].log[i].req.query
            IN  /\ IsPrefix(stmt, trim(calls[c].params.query))
                /\ CountFormatClauses(stmt)
                       <= CountFormatClauses(calls[c].params.query)

\* A query whose text already holds a FORMAT clause was sent with two.
C3_Witness ==
    \E c \in CallsOf({"query"}) :
        /\ CountFormatClauses(calls[c].params.query) = 1
        /\ \E i \in ConnectionCalls(calls[c]) :
            CountFormatClauses(calls[c].log[i].req.query) = 2

\* C4: insert of an empty array returns {executed: false, query_id: '',
\* response_headers: {}} without a call of the encoder or the connection;
\* insert of a non-empty array or of a stream never ends that way.
C4_EmptyArrayShortCircuit ==
    \A c \in CallsOf({"insert"}) :
        LET call == calls[c]
            v == call.params.values
        IN  IF v.kind = "array" /\ v.rows = <<>>
            THEN /\ call.pc = "done"
                 /\ call.outcome = ShortCircuitResult
                 /\ call.log = <<>>
            ELSE /\ call.outcome # ShortCircuitResult
                 /\ 1 \in EncoderCalls(call, "validateInsertValues")

C4_Witness ==
    \E c \in CallsOf({"insert"}) :
        /\ calls[c].params.values = ArrayValues(<<>>)
        /\ calls[c].params.format = "CSV"
        /\ calls[c].params.columns.kind = "array"
        /\ calls[c].outcome = ShortCircuitResult

\* C5: in an insert that does not short-circuit, validation runs before the
\* connection's insert, and a failed validation ends the call with that
\* error, with no call of encode and none of the connection.
C5_ValidationBeforeConnection ==
    \A c \in CallsOf({"insert"}) :
        LET call == calls[c]
            validations == EncoderCalls(call, "validateInsertValues")
        IN  /\ \A i \in ConnectionCalls(call) : \E j \in validations : j < i
            /\ \A j \in validations :
                ~call.log[j].ok =>
                    /\ call.pc = "done"
                    /\ call.outcome = Threw("validation error")
                    /\ ConnectionCalls(call) = {}
                    /\ EncoderCalls(call, "encodeValues") = {}

C5_Witness ==
    \E c \in CallsOf({"insert"}) :
        /\ calls[c].params.values = ArrayValues(<<"row">>)
        /\ \E j \in EncoderCalls(calls[c], "validateInsertValues") :
            ~calls[c].log[j].ok
        /\ calls[c].outcome = Threw("validation error")

\* C6: in an insert that reaches the connection, validate, encode and the
\* FORMAT clause of the statement all get the caller's format, or
\* JSONCompactEachRow when it is unset, and both encoder calls come before
\* the connection call.
C6_OneInsertFormat ==
    \A c \in CallsOf({"insert"}) :
        LET call == calls[c]
            fmt == IF call.params.format = UNDEF THEN "JSONCompactEachRow"
                   ELSE call.params.format
        IN  \A i \in ConnectionCalls(call) :
                LET stmt == call.log[i].req.query
                IN  /\ \E j \in EncoderCalls(call, "validateInsertValues") :
                        j < i /\ call.log[j].format = fmt
                    /\ \E j \in EncoderCalls(call, "encodeValues") :
                        j < i /\ call.log[j].format = fmt
                    /\ \A j \in DOMAIN call.log :
                        call.log[j].t = "encoder" => call.log[j].format = fmt
                    /\ call.log[i].req.values.as = fmt
                    /\ SubSeq(stmt, Len(stmt) - 2, Len(stmt))
                           = <<"FORMAT", " ", fmt>>

C6_Witness ==
    \E c \in CallsOf({"insert"}) :
        /\ calls[c].params.format = UNDEF
        /\ calls[c].params.columns = ColumnsExcept(<<"b">>)
        /\ \E i \in ConnectionCalls(calls[c]) :
            calls[c].log[i].req.values.as = "JSONCompactEachRow"

\* C7: the insert statement is 'INSERT INTO ' + trimmed table + column
\* clause + ' FORMAT ' + format; the clause is ' (c1, c2, ...)' for a
\* non-empty list, ' (* EXCEPT (c1, c2, ...))' for a non-empty exclusion
\* set, and empty otherwise, so an empty selector gives the statement of no
\* selector and never a clause of zero columns.
C7_InsertStatement ==
    \A c \in CallsOf({"insert"}) :
        LET call == calls[c]
            cols == call.params.columns
            fmt == IF call.params.format = UNDEF THEN "JSONCompactEachRow"
                   ELSE call.params.format
            clause ==
                IF cols.kind = "array" /\ cols.names # <<>>
                THEN <<" ", "(">> \o CommaList(cols.names) \o <<")">>
                ELSE IF cols.kind = "except" /\ cols.names # <<>>
                THEN <<" ", "(", "*", " ", "EXCEPT", " ", "(">>
                         \o CommaList(cols.names) \o <<")", ")">>
                ELSE <<>>
        IN  \A i \in ConnectionCalls(call) :
                LET stmt == call.log[i].req.query
                IN  /\ stmt = <<"INSERT", " ", "INTO", " ">>
                                \o trim(call.params.table) \o clause
                                \o <<" ", "FORMAT", " ", fmt>>
                    /\ \A k \in 1..(Len(stmt) - 1) :
                        ~(stmt[k] = "(" /\ stmt[k + 1] = ")")

C7_Witness ==
    \E c \in CallsOf({"insert"}) :
        /\ calls[c].params.columns = ColumnList(<<>>)
        /\ calls[c].params.table = <<"t">>
        /\ \E i \in ConnectionCalls(calls[c]) :
            calls[c].log[i].req.query =
                <<"INSERT", " ", "INTO", " ", "t", " ", "FORMAT", " ",
                  "JSONCompactEachRow">>

\* C8: the effective parameters sent to the connection are the client's
\* settings overridden key by key by the call's settings, the call's session
\* id and role or the client's when the call's is undefined, and the call's
\* query params, abort signal, query id, auth and trace headers unchanged.
C8_EffectiveParameters ==
    \A c \in CallsOf({"query", "command", "exec", "insert"}) :
        LET p == calls[c].params
            given == IF p.clickhouse_settings.defined
                     THEN p.clickhouse_settings.map ELSE EmptyMap
        IN  \A i \in ConnectionCalls(calls[c]) :
                LET req == calls[c].log[i].req
                IN  /\ DOMAIN req.clickhouse_settings =
                           (DOMAIN config.clickhouse_settings) \cup (DOMAIN given)
                    /\ \A k \in DOMAIN req.clickhouse_settings :
                        req.clickhouse_settings[k] =
                            IF k \in DOMAIN given THEN given[k]
                            ELSE config.clickhouse_settings[k]
                    /\ req.session_id =
                           IF p.session_id = UNDEF THEN config.session_id
                           ELSE p.session_id
                    /\ req.role = IF p.role = UNDEF THEN config.role ELSE p.role
                    /\ req.query_params = p.query_params
                    /\ req.abort_signal = p.abort_signal
                    /\ req.query_id = p.query_id
                    /\ req.auth = p.auth
                    /\ req.opentelemetry_headers = p.opentelemetry_headers

\* Client settings {max_threads: 4}, call settings {max_threads: 8,
\* readonly: 1}, session id inherited: sent as {max_threads: 8, readonly: 1}.
C8_Witness ==
    \E c \in CallsOf({"insert"}) :
        /\ config.clickhouse_settings = [k \in {"max_threads"} |-> 4]
        /\ config.session_id = "s0"
        /\ calls[c].params.session_id = UNDEF
        /\ \E i \in ConnectionCalls(calls[c]) :
            /\ calls[c].log[i].req.clickhouse_settings =
                   [k \in SettingKeys |-> IF k = "max_threads" THEN 8 ELSE 1]
            /\ calls[c].log[i].req.session_id = "s0"

\* C9: ping never raises: when the connection's probe fails it returns
\* {success: false, error: <cause>}, when the probe succeeds a success outcome.
C9_PingNeverRaises ==
    \A c \in CallsOf({"ping"}) :
        /\ calls[c].outcome.kind # "threw"
        /\ calls[c].pc = "done" =>
            /\ calls[c].outcome.kind = "returned"
            /\ calls[c].outcome.value.success = calls[c].settled.value.success
            /\ ~calls[c].settled.value.success =>
                calls[c].outcome.value = [success |-> FALSE, error |-> "cause"]

C9_Witness ==
    \E c \in CallsOf({"ping"}) :
        /\ calls[c].pc = "done"
        /\ ~calls[c].settled.value.success
        /\ calls[c].outcome = Returned([success |-> FALSE, error |-> "cause"])

\* The request a call would send if it ran alone on the client as built.
RequestAlone(op, params) ==
    LET this == Construct(config)
    IN  CASE op = "query" -> queryRequest(this, params)
          [] op = "command" -> commandRequest(this, params)
          [] op = "exec" -> execRequest(this, params)
          [] op = "insert" -> insertRequest(this, params)

\* C10: under any interleaving of concurrent query, insert, command and exec
\* calls no call changes a field of the client, and the request of each call
\* is the one it would send if it ran alone.
C10_CallsIndependent ==
    /\ client = Construct(config)
    /\ \A c \in CallsOf({"query", "command", "exec", "insert"}) :
        \A i \in ConnectionCalls(calls[c]) :
            calls[c].log[i].req = RequestAlone(calls[c].op, calls[c].params)

\* Two calls in flight at once, one overriding the client's values.
C10_Witness ==
    \E c, d \in CallsOf({"query", "command", "exec", "insert"}) :
        /\ c # d
        /\ calls[c].pc = "awaiting"
        /\ calls[d].pc = "awaiting"
        /\ calls[c].params.session_id = "s1"
        /\ calls[d].params.session_id = UNDEF
        /\ config.session_id = "s0"
        /\ RequestOf(calls[d]).session_id = "s0"

=============================================================================
